---- MODULE Spec2Model ----
(***************************************************************************)
(* Georgia Power rate-plan analyzer (web/script.js): the upload handlers,  *)
(* processData, parseDate, calculateCosts, the period classifiers and      *)
(* displayResults, as a state machine over the page's DOM state and the    *)
(* FileReader reads in flight.                                             *)
(*                                                                         *)
(* Numbers.  The script computes in IEEE doubles; the model computes the   *)
(* same expressions exactly.  Usage is held in units of 0.0005 kWh         *)
(* (UnitsPerKwh per kWh), rates in micro-dollars, and money in units of    *)
(* 1 / (10^6 * UnitsPerKwh * TAX_DEN) dollar, so that every product and    *)
(* the multiplication by TAX_RATE = 1.12 is an integer.  Money exceeds 32  *)
(* bits, so it is held as a little-endian sequence of base-10^4 limbs (the *)
(* Big operators).  Rounding of doubles is outside the model.              *)
(*                                                                         *)
(* Dates.  A Date is its local wall-clock minute count since 1970-01-01    *)
(* 00:00, or InvalidDate (a Date whose time value is NaN).  Differences of *)
(* Dates are taken on the wall clock (a zone without DST changes).         *)
(***************************************************************************)
EXTENDS Integers, Sequences, FiniteSets

VARIABLES
    errorHidden,    \* errorMessage has the class 'hidden'
    errorText,      \* errorMessage.textContent
    resultsHidden,  \* resultsSection has the class 'hidden'
    dom,            \* what displayResults last wrote to the page
    readers,        \* the FileReader reads in flight, each with its upload number
    uploads,        \* the number of handleFile calls so far
    lastRun,        \* the last run that finished: its upload number, rows and outcome
    probe,          \* a Date handed to the period classifiers
    period          \* what the classifiers returned for probe

vars == <<errorHidden, errorText, resultsHidden, dom, readers, uploads, lastRun, probe, period>>

-----------------------------------------------------------------------------
(* Exact arithmetic on non-negative numbers of any size.                   *)

Base == 100 * 100

BigCons(d, x) == IF d = 0 /\ x = <<>> THEN <<>> ELSE <<d>> \o x

RECURSIVE BigOfInt(_)
BigOfInt(n) == IF n = 0 THEN <<>> ELSE <<n % Base>> \o BigOfInt(n \div Base)

RECURSIVE BigAddC(_, _, _)
BigAddC(a, b, c) ==
    IF a = <<>> /\ b = <<>>
    THEN BigOfInt(c)
    ELSE LET x == (IF a = <<>> THEN 0 ELSE Head(a))
                  + (IF b = <<>> THEN 0 ELSE Head(b)) + c
         IN  <<x % Base>> \o BigAddC(IF a = <<>> THEN a ELSE Tail(a),
                                     IF b = <<>> THEN b ELSE Tail(b),
                                     x \div Base)

BigAdd(a, b) == BigAddC(a, b, 0)

RECURSIVE BigMulIntC(_, _, _)
BigMulIntC(a, k, c) ==
    IF a = <<>>
    THEN BigOfInt(c)
    ELSE LET x == Head(a) * k + c
         IN  <<x % Base>> \o BigMulIntC(Tail(a), k, x \div Base)

\* a * k for an integer 0 <= k <= 200000
BigMulInt(a, k) == IF k = 0 THEN <<>> ELSE BigMulIntC(a, k, 0)

RECURSIVE BigMul(_, _)
BigMul(a, b) ==
    IF b = <<>> \/ a = <<>>
    THEN <<>>
    ELSE BigAdd(BigMulInt(a, Head(b)), BigCons(0, BigMul(a, Tail(b))))

RECURSIVE BigLess(_, _)
BigLess(a, b) ==
    IF Len(a) # Len(b)
    THEN Len(a) < Len(b)
    ELSE IF a = <<>>
         THEN FALSE
         ELSE LET n == Len(a)
              IN  IF a[n] # b[n]
                  THEN a[n] < b[n]
                  ELSE BigLess(SubSeq(a, 1, n - 1), SubSeq(b, 1, n - 1))

BigLeq(a, b) == ~BigLess(b, a)

RECURSIVE BigSubB(_, _, _)
BigSubB(a, b, w) ==
    IF a = <<>>
    THEN <<>>
    ELSE LET x == Head(a) - (IF b = <<>> THEN 0 ELSE Head(b)) - w
             d == IF x < 0 THEN x + Base ELSE x
         IN  BigCons(d, BigSubB(Tail(a), IF b = <<>> THEN b ELSE Tail(b),
                                IF x < 0 THEN 1 ELSE 0))

\* a - b for a >= b
BigSub(a, b) == BigSubB(a, b, 0)

RECURSIVE BigDivMod(_, _)
BigDivMod(a, k) ==
    IF a = <<>>
    THEN [q |-> <<>>, r |-> 0]
    ELSE LET hi  == BigDivMod(Tail(a), k)
             cur == hi.r * Base + Head(a)
         IN  [q |-> BigCons(cur \div k, hi.q), r |-> cur % k]

\* floor(a / k) for an integer 0 < k <= 200000
BigDivInt(a, k) == BigDivMod(a, k).q

\* a - b as a signed number: JS subtraction of two finite numbers
Diff(a, b) ==
    IF BigLess(a, b)
    THEN [neg |-> TRUE, mag |-> BigSub(b, a)]
    ELSE [neg |-> FALSE, mag |-> BigSub(a, b)]

-----------------------------------------------------------------------------
(* JS numbers that may be NaN, and the Date built-ins the script calls.    *)

\* NaN: a value no number of the model takes
NaN == 0 - 1073741824

IsNaN(x) == x = NaN

\* JS comparisons: false as soon as one side is NaN
Lt(a, b) == ~IsNaN(a) /\ ~IsNaN(b) /\ a < b
Le(a, b) == ~IsNaN(a) /\ ~IsNaN(b) /\ a <= b
Gt(a, b) == ~IsNaN(a) /\ ~IsNaN(b) /\ a > b
Ge(a, b) == ~IsNaN(a) /\ ~IsNaN(b) /\ a >= b

Max(a, b) == IF a >= b THEN a ELSE b
Min(a, b) == IF a <= b THEN a ELSE b

MinutesPerDay == 24 * 60

\* days from 1970-01-01 to the civil date y-m-d (m in 1..12, d any count)
DaysFromCivil(y, m, d) ==
    LET yy  == IF m <= 2 THEN y - 1 ELSE y
        era == yy \div 400
        yoe == yy - era * 400
        mp  == IF m > 2 THEN m - 3 ELSE m + 9
        doy == (153 * mp + 2) \div 5 + d - 1
        doe == yoe * 365 + yoe \div 4 - yoe \div 100 + doy
    IN  era * 146097 + doe - 719468

\* the civil date of a day count, in four steps: the 400-year era and the
\* day of the era, the year of the era, the day of the year, the month
CivilFromDoy(y, doy) ==
    LET mp == (5 * doy + 2) \div 153
        m  == IF mp < 10 THEN mp + 3 ELSE mp - 9
    IN  [year |-> y + (IF m <= 2 THEN 1 ELSE 0), month |-> m,
         day |-> doy - (153 * mp + 2) \div 5 + 1]

CivilFromYoe(era, doe, yoe) ==
    CivilFromDoy(yoe + era * 400, doe - (365 * yoe + yoe \div 4 - yoe \div 100))

CivilFromDoe(era, doe) ==
    CivilFromYoe(era, doe, (doe - doe \div 1460 + doe \div 36524 - doe \div 146096) \div 365)

CivilFromDays(z) ==
    CivilFromDoe((z + 719468) \div 146097, (z + 719468) % 146097)

\* A Date: its time value t (minutes, or NaN) with what its getters return:
\* getFullYear, getMonth (0..11), getDate, getHours, getMinutes and getDay
\* (0 = Sunday .. 6 = Saturday; 1970-01-01 was a Thursday)
DateFields(t, civil) ==
    [t |-> t, year |-> civil.year, month |-> civil.month - 1, date |-> civil.day,
     hours |-> (t % MinutesPerDay) \div 60, minutes |-> t % 60,
     day |-> (t \div MinutesPerDay + 4) % 7]

\* new Date(t)
DateOfTime(t) == DateFields(t, CivilFromDays(t \div MinutesPerDay))

\* a Date whose time value is NaN: every getter returns NaN
InvalidDate ==
    [t |-> NaN, year |-> NaN, month |-> NaN, date |-> NaN, hours |-> NaN, minutes |-> NaN,
     day |-> NaN]

\* new Date(y, m0, d, hr, min): NaN in any field gives an invalid Date; the
\* month index, day, hour and minute carry over as JS normalises them
NewDate(y, m0, d, hr, min) ==
    IF IsNaN(y) \/ IsNaN(m0) \/ IsNaN(d) \/ IsNaN(hr) \/ IsNaN(min)
    THEN InvalidDate
    ELSE DateOfTime((DaysFromCivil(y + m0 \div 12, (m0 % 12) + 1, 1) + d - 1) * MinutesPerDay
                    + hr * 60 + min)

\* a - b on Dates, in minutes (the script's milliseconds / 60000)
DateDiff(a, b) == IF IsNaN(a.t) \/ IsNaN(b.t) THEN NaN ELSE a.t - b.t

-----------------------------------------------------------------------------
(* Money: signed exact numbers.                                            *)

UnitsPerKwh == 2 * 1000

Zero == [neg |-> FALSE, mag |-> <<>>]

Money(b) == [neg |-> FALSE, mag |-> b]

MNeg(a) == IF a.mag = <<>> THEN a ELSE [neg |-> ~a.neg, mag |-> a.mag]

MAdd(a, b) ==
    IF a.neg = b.neg
    THEN [neg |-> a.neg, mag |-> BigAdd(a.mag, b.mag)]
    ELSE IF a.mag = b.mag
         THEN Zero
         ELSE IF BigLess(a.mag, b.mag)
              THEN [neg |-> b.neg, mag |-> BigSub(b.mag, a.mag)]
              ELSE [neg |-> a.neg, mag |-> BigSub(a.mag, b.mag)]

MSub(a, b) == MAdd(a, MNeg(b))

MLess(a, b) == MSub(a, b).neg

MLeq(a, b) == ~MLess(b, a)

-----------------------------------------------------------------------------
(* Spreadsheet cells, as XLSX.utils.sheet_to_json(..., {header: 1}) gives  *)
(* them: a row is a sequence of cells.  A cell is empty (undefined/null),  *)
(* a number, or a string.  Of a string the model keeps what the script     *)
(* reads of it: whether its lower-cased text includes 'hour' and 'kwh',    *)
(* what parseFloat makes of it, and its words (split(' ')), each word with *)
(* the numbers that split('-').map(Number) and split(':').map(Number)      *)
(* give.  A number is held in usage units where it is read as kWh and in   *)
(* minutes (serial days * 1440) where it is read as a date serial.         *)

EmptyCell == [kind |-> "empty", num |-> NaN, hour |-> FALSE, kwh |-> FALSE, words |-> <<>>]

NumCell(n) == [kind |-> "num", num |-> n, hour |-> FALSE, kwh |-> FALSE, words |-> <<>>]

StrCell(float, hour, kwh, words) ==
    [kind |-> "str", num |-> float, hour |-> hour, kwh |-> kwh, words |-> words]

Word(dash, colon) == [empty |-> FALSE, dash |-> dash, colon |-> colon]

EmptyWord == [empty |-> TRUE, dash |-> <<0>>, colon |-> <<0>>]

\* c && c.toString().toLowerCase().includes(text), text 'hour' or 'kwh'
Includes(c, text) == c.kind = "str" /\ (IF text = "hour" THEN c.hour ELSE c.kwh)

\* row.findIndex(c => includes text), 1-based; 0 where the script has -1
RECURSIVE FindIndexFrom(_, _, _)
FindIndexFrom(row, i, text) ==
    IF i > Len(row) THEN 0
    ELSE IF Includes(row[i], text) THEN i
    ELSE FindIndexFrom(row, i + 1, text)

HeaderScanRows == 20

\* the header search of processData: [row, timestamp, kwh], row = 0 if none
RECURSIVE FindHeaderFrom(_, _)
FindHeaderFrom(rows, i) ==
    IF i > Min(Len(rows), HeaderScanRows)
    THEN [row |-> 0, timestamp |-> 0, kwh |-> 0]
    ELSE LET row     == rows[i]
             hourIdx == FindIndexFrom(row, 1, "hour")
             kwhIdx  == FindIndexFrom(row, 1, "kwh")
         IN  IF Len(row) # 0 /\ hourIdx # 0 /\ kwhIdx # 0
             THEN [row |-> i, timestamp |-> hourIdx, kwh |-> kwhIdx]
             ELSE FindHeaderFrom(rows, i + 1)

FindHeader(rows) == FindHeaderFrom(rows, 1)

\* parseFloat(kwhVal)
parseFloat(c) == IF c.kind = "empty" THEN NaN ELSE c.num

\* array destructuring: a missing element is undefined, NaN as a number
Field(a, i) == IF i <= Len(a) THEN a[i] ELSE NaN

\* parseDate(str): <<>> for null, else <<Date>> (an invalid Date included)
parseDate(words) ==
    IF Len(words) < 2 \/ words[1].empty \/ words[2].empty
    THEN <<>>
    ELSE LET y   == Field(words[1].dash, 1)
             m   == Field(words[1].dash, 2)
             d   == Field(words[1].dash, 3)
             hr  == Field(words[2].colon, 1)
             min == Field(words[2].colon, 2)
         IN  <<NewDate(y, IF IsNaN(m) THEN NaN ELSE m - 1, d, hr, min)>>

ExcelEpochDays == 25569

\* new Date(y, m0, d, hr, min) of the UTC fields of a Date
LocalFromUtc(u) == NewDate(u.year, u.month, u.date, u.hours, u.minutes)

\* the Excel serial branch: the UTC fields of the instant, to the minute,
\* taken as local time
SerialToDate(n) == LocalFromUtc(DateOfTime(n - ExcelEpochDays * MinutesPerDay))

\* 0.001 kWh
MinKwh == 2

\* ParseRow skipping only the rows below 0.001 kWh
ParseRowBelowMin(row, colMap) ==
    IF Len(row) < Max(colMap.timestamp, colMap.kwh)
    THEN <<>>
    ELSE LET timestampStr == row[colMap.timestamp]
             kwh          == parseFloat(row[colMap.kwh])
             dt           == IF timestampStr.kind = "num"
                             THEN <<SerialToDate(timestampStr.num)>>
                             ELSE parseDate(timestampStr.words)
         IN  IF timestampStr.kind = "empty" THEN <<>>
             ELSE IF IsNaN(kwh) THEN <<>>
             ELSE IF kwh < MinKwh THEN <<>>
             ELSE IF dt = <<>> THEN <<>>
             ELSE <<[dt |-> dt[1], kwh |-> kwh]>>

\* one iteration of the row loop: <<>> if the row is skipped, else <<record>>
ParseRow(row, colMap) ==
    IF Len(row) < Max(colMap.timestamp, colMap.kwh)
    THEN <<>>
    ELSE LET timestampStr == row[colMap.timestamp]
             kwh          == parseFloat(row[colMap.kwh])
             dt           == IF timestampStr.kind = "num"
                             THEN <<SerialToDate(timestampStr.num)>>
                             ELSE parseDate(timestampStr.words)
         IN  IF timestampStr.kind = "empty" THEN <<>>
             ELSE IF IsNaN(kwh) THEN <<>>
             ELSE IF kwh <= MinKwh THEN <<>>
             ELSE IF dt = <<>> THEN <<>>
             ELSE <<[dt |-> dt[1], kwh |-> kwh]>>

RECURSIVE ParseRowsFrom(_, _, _)
ParseRowsFrom(rows, i, colMap) ==
    IF i > Len(rows) THEN <<>>
    ELSE ParseRow(rows[i], colMap) \o ParseRowsFrom(rows, i + 1, colMap)

-----------------------------------------------------------------------------
(* records.sort((a, b) => a.dt - b.dt)                                     *)

\* the comparator; SortCompare takes a NaN result as +0
CompareDt(a, b) == IF IsNaN(DateDiff(a.dt, b.dt)) THEN 0 ELSE DateDiff(a.dt, b.dt)

\* a stable insertion: r goes after every element that does not compare
\* greater than it
RECURSIVE InsertByDt(_, _)
InsertByDt(sorted, r) ==
    IF sorted = <<>> THEN <<r>>
    ELSE IF CompareDt(Head(sorted), r) > 0 THEN <<r>> \o sorted
    ELSE <<Head(sorted)>> \o InsertByDt(Tail(sorted), r)

RECURSIVE StableSortByDt(_)
StableSortByDt(records) ==
    IF records = <<>> THEN <<>>
    ELSE InsertByDt(StableSortByDt(SubSeq(records, 1, Len(records) - 1)),
                    records[Len(records)])

\* the comparator is consistent (ECMA-262, Array.prototype.sort) unless an
\* invalid Date, which compares equal to everything, sits beside two valid
\* Dates that differ
ConsistentComparator(records) ==
    \/ \A i \in 1..Len(records) : ~IsNaN(records[i].dt.t)
    \/ \A i, j \in 1..Len(records) :
           ~IsNaN(records[i].dt.t) /\ ~IsNaN(records[j].dt.t)
               => records[i].dt.t = records[j].dt.t

IndexPermutations(n) == {p \in [1..n -> 1..n] : \A i, j \in 1..n : i # j => p[i] # p[j]}

\* the orders the sort may leave: the stable ascending order, or, with an
\* inconsistent comparator, an implementation-defined permutation
SortOutcomes(records) ==
    IF ConsistentComparator(records)
    THEN {StableSortByDt(records)}
    ELSE {[i \in 1..Len(records) |-> records[p[i]]] : p \in IndexPermutations(Len(records))}

-----------------------------------------------------------------------------
(* Strings the script builds as keys: sequences of characters.             *)

DigitChars == <<"0", "1", "2", "3", "4", "5", "6", "7", "8", "9">>

RECURSIVE DigitsOf(_)
DigitsOf(n) == IF n < 10 THEN <<DigitChars[n + 1]>>
               ELSE DigitsOf(n \div 10) \o <<DigitChars[(n % 10) + 1]>>

\* String(n) / template interpolation of a number (n >= 0 or NaN)
Str(n) == IF IsNaN(n) THEN <<"N", "a", "N">> ELSE DigitsOf(n)

\* s.padStart(2, '0')
PadStart2(s) == IF Len(s) < 2 THEN <<"0">> \o s ELSE s

\* s.split('-')
RECURSIVE SplitDash(_)
SplitDash(s) ==
    IF s = <<>> THEN << <<>> >>
    ELSE IF Head(s) = "-" THEN << <<>> >> \o SplitDash(Tail(s))
    ELSE << <<Head(s)>> \o Head(SplitDash(Tail(s))) >> \o Tail(SplitDash(Tail(s)))

DigitValue(c) == CHOOSE d \in 0..9 : DigitChars[d + 1] = c

RECURSIVE NumberOfDigits(_, _)
NumberOfDigits(s, acc) ==
    IF s = <<>> THEN acc ELSE NumberOfDigits(Tail(s), acc * 10 + DigitValue(Head(s)))

\* Number(s) for a string of decimal digits; '' is 0, anything else NaN
Number(s) ==
    IF \A i \in 1..Len(s) : \E d \in 1..10 : DigitChars[d] = s[i]
    THEN NumberOfDigits(s, 0)
    ELSE NaN

\* const month = dt.getMonth() + 1
MonthOf(dt) == IF IsNaN(dt.month) THEN NaN ELSE dt.month + 1

\* `${dt.getFullYear()}-${String(month).padStart(2, '0')}`
MonthKey(dt) == Str(dt.year) \o <<"-">> \o PadStart2(Str(MonthOf(dt)))

\* `${monthKey}-${String(dt.getDate()).padStart(2, '0')}`
DayKey(dt) == MonthKey(dt) \o <<"-">> \o PadStart2(Str(dt.date))

\* `${r.dt.getFullYear()}-${r.dt.getMonth()}-${r.dt.getDate()}`
AllDaysKey(dt) == Str(dt.year) \o <<"-">> \o Str(dt.month) \o <<"-">> \o Str(dt.date)

-----------------------------------------------------------------------------
(* The period classifiers.                                                 *)

\* isOnPeak with the peak window closed at 19
isOnPeakThrough19(dt) ==
    /\ Ge(dt.day, 1) /\ Le(dt.day, 5)
    /\ Ge(MonthOf(dt), 6) /\ Le(MonthOf(dt), 9)
    /\ Ge(dt.hours, 14) /\ Le(dt.hours, 19)

isOnPeak(dt) ==
    LET month      == MonthOf(dt)
        hour       == dt.hours
        day        == dt.day
        isWeekday  == Ge(day, 1) /\ Le(day, 5)
        isSummer   == Ge(month, 6) /\ Le(month, 9)
        isPeakHour == Ge(hour, 14) /\ Lt(hour, 19)
    IN  isWeekday /\ isSummer /\ isPeakHour

\* getTouOaPeriod with super-off-peak starting after hour 23
getTouOaPeriodAfter23(dt) ==
    IF isOnPeak(dt) THEN "on_peak"
    ELSE IF Gt(dt.hours, 23) \/ Lt(dt.hours, 7) THEN "super_off_peak"
    ELSE "off_peak"

getTouOaPeriod(dt) ==
    IF isOnPeak(dt) THEN "on_peak"
    ELSE IF Ge(dt.hours, 23) \/ Lt(dt.hours, 7) THEN "super_off_peak"
    ELSE "off_peak"

-----------------------------------------------------------------------------
(* calculateCosts.  Rates are in micro-dollars per kWh (per day, per kWh   *)
(* of monthly peak).                                                       *)

FCR_SUMMER == 45876
FCR_WINTER == 42859
\* TAX_RATE = 1.12 = TAX_NUM / TAX_DEN
TAX_NUM == 112
TAX_DEN == 100

FIXED_PER_DAY == 460300
TOU_REO_ON == 297868
TOU_REO_OFF == 76281
TOU_OA_ON == 297868
TOU_OA_OFF == 101676
TOU_OA_SUPER == 21859
TOU_RD_ON == 142986
TOU_RD_OFF == 15288
DEMAND_RATE == 12210000
R30_TIER1 == 86121
R30_TIER2 == 143047
R30_TIER3 == 148051
R30_WINTER == 80602
\* tier bounds, in kWh
TIER1_KWH == 650
TIER2_WIDTH_KWH == 350
TIER2_KWH == 1000

\* qty * rate: qty in usage units (a day count is days * UnitsPerKwh)
Times(qty, rate) == Money(BigMulInt(BigMul(BigOfInt(qty), BigOfInt(rate)), TAX_DEN))

\* x * TAX_RATE
TimesTax(x) == [neg |-> x.neg, mag |-> BigDivInt(BigMulInt(x.mag, TAX_NUM), TAX_DEN)]

RECURSIVE SumKwh(_)
SumKwh(records) ==
    IF records = <<>> THEN 0 ELSE Head(records).kwh + SumKwh(Tail(records))

\* if (kwh > maxDemand) maxDemand = kwh, over the records of a month
RECURSIVE MaxDemand(_, _)
MaxDemand(records, maxDemand) ==
    IF records = <<>> THEN maxDemand
    ELSE MaxDemand(Tail(records),
                   IF Head(records).kwh > maxDemand THEN Head(records).kwh ELSE maxDemand)

\* fcrCost = kwh * fcrRate
FcrCost(r) ==
    Times(r.kwh, IF Ge(MonthOf(r.dt), 6) /\ Le(MonthOf(r.dt), 9) THEN FCR_SUMMER ELSE FCR_WINTER)

\* total_fcr: the sum over the records of fcrCost
RECURSIVE total_fcr(_)
total_fcr(records) ==
    IF records = <<>> THEN Zero
    ELSE MAdd(total_fcr(SubSeq(records, 1, Len(records) - 1)), FcrCost(records[Len(records)]))

AppendNew(keys, key) ==
    IF \E i \in 1..Len(keys) : keys[i] = key THEN keys ELSE Append(keys, key)

\* the keys of monthlyUsage, in insertion order
RECURSIVE MonthKeys(_)
MonthKeys(records) ==
    IF records = <<>> THEN <<>>
    ELSE AppendNew(MonthKeys(SubSeq(records, 1, Len(records) - 1)),
                   MonthKey(records[Len(records)].dt))

\* monthlyUsage[key], from the records of that month
MonthBucket(key, rs) ==
    [key       |-> key,
     total     |-> SumKwh(rs),
     days      |-> {DayKey(rs[i].dt) : i \in 1..Len(rs)},
     maxDemand |-> MaxDemand(rs, 0)]

MonthBuckets(records, keys) ==
    [i \in 1..Len(keys) |->
        MonthBucket(keys[i], SelectSeq(records, LAMBDA r : MonthKey(r.dt) = keys[i]))]

\* Object.values(monthlyUsage), in insertion order
monthlyUsage(records) == MonthBuckets(records, MonthKeys(records))

\* what the two loops over the records leave
Aggregates(records) ==
    [agg_tou_reo_on   |-> SumKwh(SelectSeq(records, LAMBDA r : isOnPeak(r.dt))),
     agg_tou_reo_off  |-> SumKwh(SelectSeq(records, LAMBDA r : ~isOnPeak(r.dt))),
     agg_tou_oa_on    |-> SumKwh(SelectSeq(records,
                              LAMBDA r : getTouOaPeriod(r.dt) = "on_peak")),
     agg_tou_oa_super |-> SumKwh(SelectSeq(records,
                              LAMBDA r : getTouOaPeriod(r.dt) = "super_off_peak")),
     agg_tou_oa_off   |-> SumKwh(SelectSeq(records,
                              LAMBDA r : getTouOaPeriod(r.dt) \notin {"on_peak", "super_off_peak"})),
     monthlyUsage     |-> monthlyUsage(records),
     total_fcr        |-> total_fcr(records),
     billingDays      |-> Cardinality({AllDaysKey(records[i].dt) : i \in 1..Len(records)})]

\* m.maxDemand * 12.21, summed over the months
RECURSIVE total_demand_charge(_)
total_demand_charge(months) ==
    IF months = <<>> THEN Zero
    ELSE MAdd(total_demand_charge(SubSeq(months, 1, Len(months) - 1)),
              Times(months[Len(months)].maxDemand, DEMAND_RATE))

\* R30EnergyCost billing the first tier only to months that stay within it
R30EnergyCostFirstTierWithin(month, usage) ==
    LET tier1 == IF usage > TIER1_KWH * UnitsPerKwh THEN 0 ELSE usage
        tier2 == IF usage > TIER1_KWH * UnitsPerKwh
                 THEN Min(usage - TIER1_KWH * UnitsPerKwh, TIER2_WIDTH_KWH * UnitsPerKwh)
                 ELSE 0
        tier3 == IF usage > TIER2_KWH * UnitsPerKwh
                 THEN usage - TIER2_KWH * UnitsPerKwh
                 ELSE 0
    IN  IF Ge(month, 6) /\ Le(month, 9)
        THEN MAdd(MAdd(Times(tier1, R30_TIER1), Times(tier2, R30_TIER2)),
                  Times(tier3, R30_TIER3))
        ELSE Times(usage, R30_WINTER)

\* the summer tiers of R-30, and the winter rate
R30EnergyCost(month, usage) ==
    LET tier1 == Min(usage, TIER1_KWH * UnitsPerKwh)
        tier2 == IF usage > TIER1_KWH * UnitsPerKwh
                 THEN Min(usage - TIER1_KWH * UnitsPerKwh, TIER2_WIDTH_KWH * UnitsPerKwh)
                 ELSE 0
        tier3 == IF usage > TIER2_KWH * UnitsPerKwh
                 THEN usage - TIER2_KWH * UnitsPerKwh
                 ELSE 0
    IN  IF Ge(month, 6) /\ Le(month, 9)
        THEN MAdd(MAdd(Times(tier1, R30_TIER1), Times(tier2, R30_TIER2)),
                  Times(tier3, R30_TIER3))
        ELSE Times(usage, R30_WINTER)

\* one iteration of the R-30 loop: fixed + energyCost of the month m
R30Month(m) ==
    MAdd(Times(Cardinality(m.days) * UnitsPerKwh, FIXED_PER_DAY),
         R30EnergyCost(Number(Field(SplitDash(m.key), 2)), m.total))

RECURSIVE r30_base_total(_)
r30_base_total(months) ==
    IF months = <<>> THEN Zero
    ELSE MAdd(r30_base_total(SubSeq(months, 1, Len(months) - 1)), R30Month(months[Len(months)]))

NoDemand == [has |-> FALSE, amount |-> Zero]

\* total = (the components) * TAX_RATE and tax = total - (the components)
WithTax(fixed, energy, demand, fcr, base) ==
    [total |-> TimesTax(base),
     breakdown |-> [fixed |-> fixed, energy |-> energy, demand |-> demand, fcr |-> fcr,
                    tax |-> MSub(TimesTax(base), base)]]

\* a time-of-use plan: the base is fixed + energy (+ demand) + total_fcr
TouPlan(fixed, energy, demand, fcr) ==
    WithTax(fixed, energy, demand, fcr, MAdd(MAdd(MAdd(fixed, energy), demand.amount), fcr))

\* 0.4603 * billingDays
BillingFixed(agg) == Times(agg.billingDays * UnitsPerKwh, FIXED_PER_DAY)

\* 1. TOU-REO
tou_reo(agg) ==
    TouPlan(BillingFixed(agg),
            MAdd(Times(agg.agg_tou_reo_on, TOU_REO_ON), Times(agg.agg_tou_reo_off, TOU_REO_OFF)),
            NoDemand, agg.total_fcr)

\* 2. TOU-OA
tou_oa(agg) ==
    TouPlan(BillingFixed(agg),
            MAdd(MAdd(Times(agg.agg_tou_oa_on, TOU_OA_ON), Times(agg.agg_tou_oa_off, TOU_OA_OFF)),
                 Times(agg.agg_tou_oa_super, TOU_OA_SUPER)),
            NoDemand, agg.total_fcr)

\* 3. TOU-RD
tou_rd(agg) ==
    TouPlan(BillingFixed(agg),
            MAdd(Times(agg.agg_tou_reo_on, TOU_RD_ON), Times(agg.agg_tou_reo_off, TOU_RD_OFF)),
            [has |-> TRUE, amount |-> total_demand_charge(agg.monthlyUsage)],
            agg.total_fcr)

\* R30Plan with the whole of r30_base reported as energy
R30PlanEnergyIsBase(base, fixed, fcr) == WithTax(fixed, base, NoDemand, fcr, MAdd(base, fcr))

\* the R-30 entry: fixed is 0.4603 * billingDays, energy the rest of r30_base
R30Plan(base, fixed, fcr) == WithTax(fixed, MSub(base, fixed), NoDemand, fcr, MAdd(base, fcr))

\* 4. R-30
r30(agg) == R30Plan(r30_base_total(agg.monthlyUsage), BillingFixed(agg), agg.total_fcr)

\* the object handed to displayResults
Results(agg, stats) ==
    [tou_reo |-> tou_reo(agg), tou_oa |-> tou_oa(agg), tou_rd |-> tou_rd(agg),
     r30 |-> r30(agg), stats |-> stats]

calculateCosts(records, durationDays, note) ==
    Results(Aggregates(records),
            [start |-> records[1].dt, end |-> records[Len(records)].dt,
             duration |-> durationDays, totalUsage |-> SumKwh(records), note |-> note])

-----------------------------------------------------------------------------
(* displayResults: what it writes to the page.                             *)

\* InsertByCost placing a plan before the plans of equal cost
RECURSIVE InsertByCostBeforeEqual(_, _)
InsertByCostBeforeEqual(sorted, p) ==
    IF sorted = <<>> THEN <<p>>
    ELSE IF MLeq(p.cost, Head(sorted).cost) THEN <<p>> \o sorted
    ELSE <<Head(sorted)>> \o InsertByCostBeforeEqual(Tail(sorted), p)

\* plans.sort((a, b) => a.cost - b.cost): costs are finite, the sort stable
RECURSIVE InsertByCost(_, _)
InsertByCost(sorted, p) ==
    IF sorted = <<>> THEN <<p>>
    ELSE IF MLess(p.cost, Head(sorted).cost) THEN <<p>> \o sorted
    ELSE <<Head(sorted)>> \o InsertByCost(Tail(sorted), p)

RECURSIVE SortByCost(_)
SortByCost(plans) ==
    IF plans = <<>> THEN <<>>
    ELSE InsertByCost(SortByCost(SubSeq(plans, 1, Len(plans) - 1)), plans[Len(plans)])

PlanList(results) ==
    << [id |-> "tou-reo", name |-> "TOU-REO", cost |-> results.tou_reo.total,
        breakdown |-> results.tou_reo.breakdown],
       [id |-> "tou-oa", name |-> "TOU-OA", cost |-> results.tou_oa.total,
        breakdown |-> results.tou_oa.breakdown],
       [id |-> "tou-rd", name |-> "TOU-RD", cost |-> results.tou_rd.total,
        breakdown |-> results.tou_rd.breakdown],
       [id |-> "r30", name |-> "R-30", cost |-> results.r30.total,
        breakdown |-> results.r30.breakdown] >>

\* plans.find(p => p.id === 'r30')
FindR30(plans) == plans[CHOOSE i \in 1..Len(plans) : plans[i].id = "r30"]

\* the page after displayResults, from the sorted plans
Display(plans, best, r30Plan, stats) ==
    [shown       |-> TRUE,
     bestName    |-> best.name,
     bestId      |-> best.id,
     savings     |-> MSub(r30Plan.cost, best.cost),
     savingsText |-> IF best.id = "r30" THEN "R-30 is your best option" ELSE "Save",
     plans       |-> plans,
     stats       |-> stats]

DisplaySorted(plans, stats) == Display(plans, plans[1], FindR30(plans), stats)

displayResults(results) == DisplaySorted(SortByCost(PlanList(results)), results.stats)

-----------------------------------------------------------------------------
(* processData, after the header search and the row loop.                  *)

MIN_DAYS == 30
YEAR_DAYS == 365

\* durationDays.toFixed(1), in tenths of a day (half a tenth rounds away
\* from zero)
ToFixed1(durationMin) ==
    IF IsNaN(durationMin) THEN NaN
    ELSE IF durationMin < 0
    THEN 0 - ((0 - durationMin) * 10 + MinutesPerDay \div 2) \div MinutesPerDay
    ELSE (durationMin * 10 + MinutesPerDay \div 2) \div MinutesPerDay

NoNote == [kind |-> "", fullYears |-> 0]

\* what one call of processData did: the exception it threw, the error it
\* showed, or the results it displayed, with the values it computed on the way
Thrown(msg) ==
    [kind |-> "throw", msg |-> msg, days10 |-> 0, records |-> <<>>, durationMin |-> 0,
     usedRecords |-> <<>>, note |-> NoNote, results |-> <<>>]

Insufficient(records, durationMin) ==
    [kind |-> "insufficient", msg |-> "Insufficient data", days10 |-> ToFixed1(durationMin),
     records |-> records, durationMin |-> durationMin,
     usedRecords |-> <<>>, note |-> NoNote, results |-> <<>>]

Accepted(records, durationMin, usedRecords, note) ==
    [kind |-> "costs", msg |-> "", days10 |-> 0,
     records |-> records, durationMin |-> durationMin,
     usedRecords |-> usedRecords, note |-> note,
     results |-> calculateCosts(usedRecords,
                                DateDiff(usedRecords[Len(usedRecords)].dt, usedRecords[1].dt),
                                note)]

\* Math.floor(durationDays / 365)
FullYears(durationMin) == durationMin \div (YEAR_DAYS * MinutesPerDay)

\* 2. truncate to the most recent full years: the records not before
\* endDt - fullYears * 365 days, if the duration is 365 days or more
UsedRecords(records, durationMin) ==
    IF Ge(durationMin, YEAR_DAYS * MinutesPerDay)
    THEN SelectSeq(records,
                   LAMBDA r : Ge(r.dt.t, records[Len(records)].dt.t
                                         - FullYears(durationMin) * YEAR_DAYS * MinutesPerDay))
    ELSE records

Note(durationMin) ==
    IF Ge(durationMin, YEAR_DAYS * MinutesPerDay)
    THEN [kind |-> "full_years", fullYears |-> FullYears(durationMin)]
    ELSE [kind |-> "less_than_a_year", fullYears |-> 0]

\* 1. check the total duration
CheckDuration(records, durationMin) ==
    IF Lt(durationMin, MIN_DAYS * MinutesPerDay)
    THEN Insufficient(records, durationMin)
    ELSE Accepted(records, durationMin, UsedRecords(records, durationMin), Note(durationMin))

\* the date-range logic on the sorted records
DateRange(records) ==
    CheckDuration(records, DateDiff(records[Len(records)].dt, records[1].dt))

\* the records the row loop collects
Records(rows) == ParseRowsFrom(rows, FindHeader(rows).row + 1, FindHeader(rows))

\* processData(rows): the set of its possible outcomes (one, unless the sort
\* order is implementation-defined)
processData(rows) ==
    IF FindHeader(rows).row = 0
    THEN {Thrown("Could not find Hour and kWh columns")}
    ELSE IF Records(rows) = <<>>
    THEN {Thrown("No valid records found")}
    ELSE {DateRange(sorted) : sorted \in SortOutcomes(Records(rows))}

-----------------------------------------------------------------------------
(* The files the model uploads.                                            *)

MaxRows == 3
MaxSeries == 3
MaxUploads == 3
ProbeDays == 730

\* the text 'YYYY-MM-DD HH:MM'
DateTimeCell(y, m, d, hr, min) ==
    StrCell(y * UnitsPerKwh, FALSE, FALSE,
            <<Word(<<y, m, d>>, <<NaN>>), Word(<<NaN>>, <<hr, min>>)>>)

\* the text 'YYYY-MM-DD'
DateOnlyCell(y, m, d) == StrCell(y * UnitsPerKwh, FALSE, FALSE, <<Word(<<y, m, d>>, <<NaN>>)>>)

\* the text 'hello world'
TwoWordsCell == StrCell(NaN, FALSE, FALSE, <<Word(<<NaN>>, <<NaN>>), Word(<<NaN>>, <<NaN>>)>>)

\* the text 'abc'
TextCell == StrCell(NaN, FALSE, FALSE, <<Word(<<NaN>>, <<NaN>>)>>)

\* the Excel serial of a civil date and time, in minutes
SerialCell(y, m, d, hr, min) ==
    NumCell((DaysFromCivil(y, m, d) + ExcelEpochDays) * MinutesPerDay + hr * 60 + min)

HeaderRow == <<StrCell(NaN, TRUE, FALSE, <<Word(<<NaN>>, <<NaN>>)>>),
               StrCell(NaN, FALSE, TRUE, <<Word(<<NaN>>, <<NaN>>)>>)>>

\* rows with a valid time and a usage above 0.001 kWh
GoodRows ==
    { <<DateTimeCell(2024, 6, 3, 0, 0), NumCell(25395)>>,        \* Mon, summer, 00:00
      <<DateTimeCell(2024, 6, 4, 15, 0), NumCell(1300000)>>,     \* Tue, summer, 15:00, 650 kWh
      <<DateTimeCell(2024, 7, 3, 0, 0), NumCell(3)>>,            \* 30 d after the first
      <<DateTimeCell(2025, 1, 10, 10, 0), NumCell(54422)>>,      \* winter, 10:00
      <<SerialCell(2025, 7, 8, 0, 0), NumCell(4000)>> }          \* 400 d after the first

\* rows the loop skips: usage 0.0005 and 0.001 kWh
SkippedRows ==
    { <<DateTimeCell(2024, 6, 3, 0, 0), NumCell(1)>>,
      <<DateTimeCell(2025, 7, 8, 0, 0), NumCell(2)>> }

\* rows whose timestamp text is not a date
BadDateRows ==
    { <<TwoWordsCell, NumCell(2000)>> }

DataRows == GoodRows \cup SkippedRows \cup BadDateRows

RECURSIVE SeqsUpTo(_, _)
SeqsUpTo(S, n) ==
    IF n = 0 THEN {<<>>}
    ELSE LET shorter == SeqsUpTo(S, n - 1)
         IN  shorter \cup {Append(q, x) : q \in {t \in shorter : Len(t) = n - 1}, x \in S}

ExcelFile(rows) == [isExcel |-> TRUE, corrupt |-> FALSE, rows |-> rows]

\* the files of the single-run specification: the header, then up to MaxRows
\* data rows
DataFiles == {ExcelFile(<<HeaderRow>> \o q) : q \in SeqsUpTo(DataRows, MaxRows)}

\* the rows of the series handed to calculateCosts
SeriesRows ==
    { <<DateTimeCell(2024, 6, 3, 0, 0), NumCell(25395)>>,        \* Mon, summer, 00:00
      <<DateTimeCell(2024, 6, 4, 15, 0), NumCell(1300000)>>,     \* Tue, summer, 15:00, 650 kWh
      <<DateTimeCell(2024, 7, 9, 15, 0), NumCell(2000)>>,        \* Tue, summer, 15:00
      <<DateTimeCell(2025, 1, 10, 10, 0), NumCell(54422)>>,      \* winter, 10:00
      <<TwoWordsCell, NumCell(2000)>> }

\* the files of the series specification: the header, then up to MaxSeries
\* rows of SeriesRows
SeriesFiles == {ExcelFile(<<HeaderRow>> \o q) : q \in SeqsUpTo(SeriesRows, MaxSeries)}

\* the files of the page specification, one for each way a run can end
UiFiles ==
    { [isExcel |-> FALSE, corrupt |-> FALSE, rows |-> <<>>],                    \* not .xlsx/.xls
      [isExcel |-> TRUE, corrupt |-> TRUE, rows |-> <<>>],                      \* XLSX.read throws
      ExcelFile(<< <<DateTimeCell(2024, 6, 3, 0, 0), NumCell(2000)>> >>),       \* no header
      ExcelFile(<<HeaderRow, <<DateTimeCell(2024, 6, 3, 0, 0), NumCell(1)>>,
                  <<DateTimeCell(2024, 6, 3, 0, 0), TextCell>>,
                  <<EmptyCell, NumCell(2000)>>,
                  <<DateOnlyCell(2024, 6, 3), NumCell(2000)>>,
                  <<DateTimeCell(2024, 6, 3, 0, 0)>> >>),                        \* no valid record
      ExcelFile(<<HeaderRow, <<DateTimeCell(2024, 6, 3, 0, 0), NumCell(2000)>>,
                  <<DateTimeCell(2024, 7, 2, 23, 59), NumCell(2000)>> >>),       \* 29 d 23:59
      ExcelFile(<<HeaderRow, <<DateTimeCell(2024, 6, 3, 0, 0), NumCell(25395)>>,
                  <<DateTimeCell(2025, 1, 10, 10, 0), NumCell(54422)>> >>),      \* TOU-REO best
      ExcelFile(<<HeaderRow, <<DateTimeCell(2024, 6, 4, 15, 0), NumCell(1400000)>>,
                  <<DateTimeCell(2024, 7, 9, 15, 0), NumCell(2000)>> >>) }       \* R-30 best

-----------------------------------------------------------------------------
(* The page.                                                               *)

NoRun == [n |-> 0, rows |-> <<>>, out |-> Thrown("")]

Init ==
    /\ errorHidden = TRUE
    /\ errorText = [msg |-> "", days10 |-> 0]
    /\ resultsHidden = TRUE
    /\ dom = [shown |-> FALSE]
    /\ readers = {}
    /\ uploads = 0
    /\ lastRun = NoRun
    /\ probe = InvalidDate
    /\ period = [classified |-> FALSE]

\* showError leaving the results section as it is
showErrorKeepResults(msg, days10) ==
    /\ errorText' = [msg |-> msg, days10 |-> days10]
    /\ errorHidden' = FALSE
    /\ UNCHANGED resultsHidden

\* showError(msg)
showError(msg, days10) ==
    /\ errorText' = [msg |-> msg, days10 |-> days10]
    /\ errorHidden' = FALSE
    /\ resultsHidden' = TRUE

\* handleFile(file): an error for a name that is not .xlsx/.xls, else a new
\* FileReader and reader.readAsArrayBuffer(file)
handleFile(file) ==
    /\ uploads < MaxUploads
    /\ uploads' = uploads + 1
    /\ IF ~file.isExcel
       THEN /\ showError("Please upload a valid Excel file", 0)
            /\ lastRun' = [n |-> uploads + 1, rows |-> <<>>, out |-> Thrown("not Excel")]
            /\ UNCHANGED <<dom, readers>>
       ELSE /\ readers' = readers \cup {[n |-> uploads + 1, file |-> file]}
            /\ UNCHANGED <<errorHidden, errorText, resultsHidden, dom, lastRun>>
    /\ UNCHANGED <<probe, period>>

\* the 'drop' listener, for a drop that carries a file
Drop(file) == handleFile(file)

\* the 'change' listener of the file input, for a chosen file
Change(file) == handleFile(file)

\* reader.onload of one read in flight: XLSX.read, processData, and the catch
Onload(reader) ==
    /\ reader \in readers
    /\ readers' = readers \ {reader}
    /\ IF reader.file.corrupt
       THEN /\ showError("Error processing Excel file", 0)
            /\ lastRun' = [n |-> reader.n, rows |-> <<>>, out |-> Thrown("XLSX.read")]
            /\ UNCHANGED dom
       ELSE \E out \in processData(reader.file.rows) :
                /\ lastRun' = [n |-> reader.n, rows |-> reader.file.rows, out |-> out]
                /\ CASE out.kind = "throw" ->
                            /\ showError("Error processing Excel file", 0)
                            /\ UNCHANGED dom
                     [] out.kind = "insufficient" ->
                            /\ showError(out.msg, out.days10)
                            /\ UNCHANGED dom
                     [] out.kind = "costs" ->
                            /\ errorHidden' = TRUE
                            /\ resultsHidden' = FALSE
                            /\ dom' = displayResults(out.results)
                            /\ UNCHANGED errorText
    /\ UNCHANGED <<uploads, probe, period>>

Next ==
    \/ \E file \in UiFiles : Drop(file)
    \/ \E file \in UiFiles : Change(file)
    \/ \E reader \in readers : Onload(reader)

\* the page under any sequence of uploads
Spec == Init /\ [][Next]_vars

NextRun ==
    \/ \E file \in DataFiles : uploads = 0 /\ Drop(file)
    \/ \E file \in DataFiles : uploads = 0 /\ Change(file)
    \/ \E reader \in readers : Onload(reader)

\* one upload of one spreadsheet, over all the spreadsheets of DataFiles
SpecRun == Init /\ [][NextRun]_vars

NextSeries ==
    \/ \E file \in SeriesFiles : uploads = 0 /\ Drop(file)
    \/ \E file \in SeriesFiles : uploads = 0 /\ Change(file)
    \/ \E reader \in readers : Onload(reader)

\* one upload of one spreadsheet, over the spreadsheets of SeriesFiles
SpecSeries == Init /\ [][NextSeries]_vars

\* the Dates handed to the classifiers: every day of ProbeDays days from
\* 2024-01-01, at the minutes around the period bounds
ProbeMinutes == {0, 6 * 60 + 59, 7 * 60, 13 * 60 + 59, 14 * 60, 16 * 60 + 30,
                 18 * 60 + 59, 19 * 60, 22 * 60 + 59, 23 * 60, 23 * 60 + 59}

ProbeDates ==
    {DateOfTime(NewDate(2024, 0, 1, 0, 0).t + d * MinutesPerDay + m) : d \in 0..ProbeDays, m \in ProbeMinutes}
        \cup {InvalidDate}

InitProbe ==
    /\ errorHidden = TRUE
    /\ errorText = [msg |-> "", days10 |-> 0]
    /\ resultsHidden = TRUE
    /\ dom = [shown |-> FALSE]
    /\ readers = {}
    /\ uploads = 0
    /\ lastRun = NoRun
    /\ probe \in ProbeDates
    /\ period = [classified |-> FALSE]

\* the two classifiers applied to probe
Classify ==
    /\ ~period.classified
    /\ period' = [classified |-> TRUE, onPeak |-> isOnPeak(probe), oa |-> getTouOaPeriod(probe)]
    /\ UNCHANGED <<errorHidden, errorText, resultsHidden, dom, readers, uploads, lastRun, probe>>

NextProbe == Classify

\* the classifiers over ProbeDates
SpecProbe == InitProbe /\ [][NextProbe]_vars

TallyDays == 4
MaxTally == 2

\* the Dates of the tallied series: TallyDays days from Friday 2024-09-27,
\* across a weekend and the end of September, at the minutes of ProbeMinutes
TallyDates ==
    {DateOfTime(NewDate(2024, 8, 27, 0, 0).t + d * MinutesPerDay + m) :
        d \in 0..TallyDays, m \in ProbeMinutes} \cup {InvalidDate}

\* the observations of a tallied series: two at dt, one on a summer weekday
\* afternoon, one with an invalid Date
TallyRecords(dt) ==
    { [dt |-> dt, kwh |-> 3],
      [dt |-> dt, kwh |-> 1300000],
      [dt |-> NewDate(2024, 6, 2, 15, 0), kwh |-> 2000],
      [dt |-> InvalidDate, kwh |-> 5] }

InitTally ==
    /\ errorHidden = TRUE
    /\ errorText = [msg |-> "", days10 |-> 0]
    /\ resultsHidden = TRUE
    /\ dom = [shown |-> FALSE]
    /\ readers = {}
    /\ uploads = 0
    /\ lastRun = NoRun
    /\ probe \in TallyDates
    /\ period = [classified |-> FALSE]

\* the aggregation loops of calculateCosts on a series, with the periods of
\* probe
Tally(records) ==
    /\ ~period.classified
    /\ period' = [classified |-> TRUE, onPeak |-> isOnPeak(probe),
                  oa |-> getTouOaPeriod(probe),
                  records |-> records, agg |-> Aggregates(records)]
    /\ UNCHANGED <<errorHidden, errorText, resultsHidden, dom, readers, uploads, lastRun, probe>>

NextTally == \E records \in SeqsUpTo(TallyRecords(probe), MaxTally) \ {<<>>} : Tally(records)

\* the classifiers and the aggregation loops over the series of TallyRecords
SpecTally == InitTally /\ [][NextTally]_vars

-----------------------------------------------------------------------------
(* Properties.                                                             *)

\* the last run that finished called calculateCosts and displayResults
Analysed == lastRun.n > 0 /\ lastRun.out.kind = "costs"

DayMinutes(days) == days * MinutesPerDay

\* total = base * 1.12, checked without TimesTax: total * 100 = base * 112
IsBaseTimesTax(total, base) ==
    /\ total.neg = base.neg
    /\ BigMulInt(total.mag, TAX_DEN) = BigMulInt(base.mag, TAX_NUM)

\* fixed + energy + demand-if-any + fuelRider of a reported breakdown
BreakdownBase(b) ==
    MAdd(MAdd(MAdd(b.fixed, b.energy), IF b.demand.has THEN b.demand.amount ELSE Zero), b.fcr)

\* C1: for every series that reaches calculateCosts and each of the four
\* plans on the page, the total is (fixed + energy + demand-if-any + fuel
\* rider) of its breakdown times 1.12, the tax is the total minus that sum,
\* and the four plans report the same fuel-rider amount.
C1_TotalIsBreakdownTimesTax ==
    Analysed =>
        /\ {dom.plans[i].id : i \in 1..Len(dom.plans)} = {"tou-reo", "tou-oa", "tou-rd", "r30"}
        /\ \A i \in 1..Len(dom.plans) :
               /\ IsBaseTimesTax(dom.plans[i].cost, BreakdownBase(dom.plans[i].breakdown))
               /\ dom.plans[i].breakdown.tax
                    = MSub(dom.plans[i].cost, BreakdownBase(dom.plans[i].breakdown))
               /\ dom.plans[i].breakdown.fcr = dom.plans[1].breakdown.fcr
               /\ dom.plans[i].breakdown.demand.has = (dom.plans[i].id = "tou-rd")

\* C1 witness: a series of several months with a demand charge and an R-30
\* energy component that differs from the R-30 base
C1_Witness ==
    /\ Analysed
    /\ Len(lastRun.out.usedRecords) >= 2
    /\ \E i \in 1..Len(dom.plans) :
           /\ dom.plans[i].id = "tou-rd"
           /\ dom.plans[i].breakdown.demand.amount # Zero
    /\ \E i \in 1..Len(dom.plans) :
           /\ dom.plans[i].id = "r30"
           /\ dom.plans[i].breakdown.fixed # Zero
           /\ dom.plans[i].breakdown.tax # Zero

\* 2024-01-01 00:00, a Monday
ProbeOrigin == NewDate(2024, 0, 1, 0, 0).t

\* Monday to Friday, counted in whole days from ProbeOrigin
ProbeIsWeekday == ((probe.t - ProbeOrigin) \div MinutesPerDay) % 7 \in 0..4

\* from June 1 00:00 up to October 1 00:00 of some year
ProbeIsJuneToSeptember ==
    \E y \in 2024..2026 :
        /\ NewDate(y, 5, 1, 0, 0).t <= probe.t
        /\ probe.t < NewDate(y, 9, 1, 0, 0).t

\* from 14:00 up to, not including, 19:00
ProbeIsPeakHour ==
    /\ 14 * 60 <= (probe.t - ProbeOrigin) % MinutesPerDay
    /\ (probe.t - ProbeOrigin) % MinutesPerDay < 19 * 60

\* C2: isOnPeak(dt) is true exactly when dt is Monday to Friday, in June to
\* September, at an hour from 14 up to but not including 19; on a July
\* Tuesday 13:59 and 19:00 are off-peak, 14:00 and 18:59 on-peak.
C2_OnPeakIffWeekdaySummerAfternoon ==
    period.classified =>
        /\ period.onPeak
             = (~IsNaN(probe.t) /\ ProbeIsWeekday /\ ProbeIsJuneToSeptember /\ ProbeIsPeakHour)
        /\ probe.t = NewDate(2024, 6, 2, 13, 59).t => ~period.onPeak
        /\ probe.t = NewDate(2024, 6, 2, 14, 0).t => period.onPeak
        /\ probe.t = NewDate(2024, 6, 2, 18, 59).t => period.onPeak
        /\ probe.t = NewDate(2024, 6, 2, 19, 0).t => ~period.onPeak

\* C2 witness: Tuesday 2 July 2024 at 18:59 was classified on-peak
C2_Witness ==
    /\ period.classified
    /\ period.onPeak
    /\ probe.t = NewDate(2024, 6, 2, 18, 59).t
    /\ probe.day = 2

\* the last run that finished got as far as the duration check
Measured == lastRun.n > 0 /\ lastRun.out.kind \in {"insufficient", "costs"}

\* the time values of the observations of a series that are dates
ValidTimes(records) == {records[i].dt.t : i \in {j \in 1..Len(records) : ~IsNaN(records[j].dt.t)}}

\* latest minus earliest valid observation, in minutes
ValidSpan(records) ==
    CHOOSE d \in {a - b : a \in ValidTimes(records), b \in ValidTimes(records)} :
        \A a \in ValidTimes(records), b \in ValidTimes(records) : a - b <= d

\* C3: a file whose earliest and latest valid observations are less than 30
\* days apart is rejected with the insufficient-data error carrying the day
\* count, calculateCosts does not run and the results stay hidden; a span of
\* 30 days or more is not rejected for insufficient data.
C3_ShortSpanRejected ==
    (Measured /\ ValidTimes(lastRun.out.records) # {}) =>
        IF ValidSpan(lastRun.out.records) < DayMinutes(MIN_DAYS)
        THEN /\ lastRun.out.kind = "insufficient"
             /\ ~errorHidden
             /\ errorText = [msg |-> "Insufficient data",
                             days10 |-> ToFixed1(ValidSpan(lastRun.out.records))]
             /\ resultsHidden
        ELSE lastRun.out.kind # "insufficient"

\* the whole 365-day years in a span of minutes
WholeYears(span) ==
    CHOOSE k \in 0..(span \div DayMinutes(YEAR_DAYS - 1)) :
        /\ k * DayMinutes(YEAR_DAYS) <= span
        /\ span < (k + 1) * DayMinutes(YEAR_DAYS)

\* the observations with a valid timestamp, in order
ValidOnly(records) == SelectSeq(records, LAMBDA r : ~IsNaN(r.dt.t))

\* the latest valid timestamp of a series
Latest(records) == CHOOSE a \in ValidTimes(records) : \A b \in ValidTimes(records) : b <= a

\* C4: when the span of the observations is 365 days or more, the
\* observations retained are exactly those not earlier than the latest one
\* minus floor(span / 365) * 365 days, so the effective window is at most
\* that long (a 400-day file keeps only its last 365 days); below 365 days
\* every observation is retained; the retained series is never empty and
\* contains the latest observation.
C4_TruncatesToWholeYears ==
    (Analysed /\ ValidTimes(lastRun.out.records) # {}) =>
        /\ ValidSpan(lastRun.out.records) >= DayMinutes(YEAR_DAYS) =>
              /\ ValidOnly(lastRun.out.usedRecords)
                   = SelectSeq(lastRun.out.records,
                               LAMBDA r : /\ ~IsNaN(r.dt.t)
                                          /\ r.dt.t >= Latest(lastRun.out.records)
                                                - WholeYears(ValidSpan(lastRun.out.records))
                                                    * DayMinutes(YEAR_DAYS))
              /\ ValidSpan(lastRun.out.usedRecords)
                   <= WholeYears(ValidSpan(lastRun.out.records)) * DayMinutes(YEAR_DAYS)
        /\ ValidSpan(lastRun.out.records) = DayMinutes(400) =>
              ValidSpan(lastRun.out.usedRecords) <= DayMinutes(YEAR_DAYS)
        /\ ValidSpan(lastRun.out.records) < DayMinutes(YEAR_DAYS) =>
              lastRun.out.usedRecords = lastRun.out.records
        /\ lastRun.out.usedRecords # <<>>
        /\ Latest(lastRun.out.records) \in ValidTimes(lastRun.out.usedRecords)

\* s without its i-th element
RemoveAt(s, i) == SubSeq(s, 1, i - 1) \o SubSeq(s, i + 1, Len(s))

\* row i is a data row (below the header) whose usage cell holds a number of
\* at most 0.001 kWh
LowUsageRow(rows, i) ==
    /\ FindHeader(rows).row > 0
    /\ i > FindHeader(rows).row
    /\ Len(rows[i]) >= FindHeader(rows).kwh
    /\ rows[i][FindHeader(rows).kwh].kind # "empty"
    /\ ~IsNaN(rows[i][FindHeader(rows).kwh].num)
    /\ rows[i][FindHeader(rows).kwh].num <= MinKwh

\* C5: a data row whose usage is at most 0.001 kWh contributes nothing: the
\* file without that row has the same header and the same observations, and
\* the run on the file is a run on the file without the row (same span,
\* months, days, aggregates, plan totals and outcome).
C5_LowUsageRowsContributeNothing ==
    lastRun.n > 0 =>
        \A i \in 1..Len(lastRun.rows) :
            LowUsageRow(lastRun.rows, i) =>
                /\ FindHeader(RemoveAt(lastRun.rows, i)) = FindHeader(lastRun.rows)
                /\ Records(RemoveAt(lastRun.rows, i)) = Records(lastRun.rows)
                /\ lastRun.out \in processData(RemoveAt(lastRun.rows, i))

\* C5 witness: an analysed file with a 0.001 kWh row dated after every
\* observation that was kept
C5_Witness ==
    /\ Analysed
    /\ \E i \in 1..Len(lastRun.rows) :
           /\ LowUsageRow(lastRun.rows, i)
           /\ lastRun.rows[i] = <<DateTimeCell(2025, 7, 8, 0, 0), NumCell(MinKwh)>>
    /\ Len(lastRun.out.records) = 2
    /\ lastRun.out.durationMin = DayMinutes(MIN_DAYS)

\* usage added to one observation: 0.0005 kWh, 1000 kWh
UsageSteps == {1, 1000 * UnitsPerKwh}

\* the series with step more usage in its i-th observation
MoreUsage(records, i, step) == [records EXCEPT ![i].kwh = @ + step]

\* no plan's total under results is above its total under more
NoPlanCheaper(results, more) ==
    /\ MLeq(results.tou_reo.total, more.tou_reo.total)
    /\ MLeq(results.tou_oa.total, more.tou_oa.total)
    /\ MLeq(results.tou_rd.total, more.tou_rd.total)
    /\ MLeq(results.r30.total, more.r30.total)

\* C6: for a series that reaches calculateCosts, raising the usage of any
\* single observation, timestamps unchanged, lowers the total of none of the
\* four plans.
C6_MoreUsageNeverCheaper ==
    Analysed =>
        \A i \in 1..Len(lastRun.out.usedRecords) : \A step \in UsageSteps :
            NoPlanCheaper(lastRun.out.results,
                          calculateCosts(MoreUsage(lastRun.out.usedRecords, i, step),
                                         lastRun.out.results.stats.duration,
                                         lastRun.out.note))

\* C6 witness: a summer observation that fills the first R-30 tier exactly,
\* which 0.0005 kWh more takes into the second, at a strictly higher R-30 total
C6_Witness ==
    /\ Analysed
    /\ \E i \in 1..Len(lastRun.out.usedRecords) :
           /\ lastRun.out.usedRecords[i].dt.month = 5
           /\ lastRun.out.usedRecords[i].kwh = TIER1_KWH * UnitsPerKwh
           /\ SumKwh(lastRun.out.usedRecords) < TIER2_KWH * UnitsPerKwh
           /\ MLess(lastRun.out.results.r30.total,
                    calculateCosts(MoreUsage(lastRun.out.usedRecords, i, 1),
                                   lastRun.out.results.stats.duration,
                                   lastRun.out.note).r30.total)

\* the four plans in the order they are listed before sorting
ListedIds == <<"tou-reo", "tou-oa", "tou-rd", "r30">>

ListedTotals(results) ==
    <<results.tou_reo.total, results.tou_oa.total, results.tou_rd.total, results.r30.total>>

\* C7: the recommended plan has the least total of the four, and among
\* plans tied at the least total it is the first of TOU-REO, TOU-OA, TOU-RD,
\* R-30; the savings shown are the R-30 total minus the recommended total,
\* never negative, and zero when R-30 is itself the cheapest.
C7_RecommendsCheapestFirstListed ==
    (Analysed /\ ~resultsHidden) =>
        /\ \E b \in 1..4 :
              /\ dom.bestId = ListedIds[b]
              /\ \A j \in 1..4 : MLeq(ListedTotals(lastRun.out.results)[b],
                                      ListedTotals(lastRun.out.results)[j])
              /\ \A j \in 1..(b - 1) : MLess(ListedTotals(lastRun.out.results)[b],
                                             ListedTotals(lastRun.out.results)[j])
              /\ dom.savings = MSub(lastRun.out.results.r30.total,
                                    ListedTotals(lastRun.out.results)[b])
        /\ ~dom.savings.neg
        /\ (\A j \in 1..4 : MLeq(lastRun.out.results.r30.total,
                                 ListedTotals(lastRun.out.results)[j]))
              => dom.savings = Zero

\* C7 witness: TOU-REO and TOU-OA tied at the least total, TOU-REO recommended
C7_Witness ==
    /\ Analysed
    /\ ~resultsHidden
    /\ lastRun.out.results.tou_reo.total = lastRun.out.results.tou_oa.total
    /\ MLess(lastRun.out.results.tou_reo.total, lastRun.out.results.tou_rd.total)
    /\ MLess(lastRun.out.results.tou_reo.total, lastRun.out.results.r30.total)
    /\ dom.bestId = "tou-reo"
    /\ dom.savings # Zero

\* C8: once a run has finished, the error message and the results section
\* are never both visible: after a rejected run the error is visible and the
\* results hidden, after a successful run the results are visible and the
\* error hidden.
C8_ErrorAndResultsExclusive ==
    /\ ~(~errorHidden /\ ~resultsHidden)
    /\ lastRun.n > 0 =>
          IF lastRun.out.kind = "costs"
          THEN ~resultsHidden /\ errorHidden
          ELSE ~errorHidden /\ resultsHidden

\* C8 witness: a rejected run after a successful one, whose results are
\* still in the page, hidden
C8_Witness ==
    /\ lastRun.n > 1
    /\ lastRun.out.kind # "costs"
    /\ dom.shown
    /\ resultsHidden
    /\ ~errorHidden

\* C9: at most one run is in flight at any time (a second upload while one
\* is reading is rejected or queued), and once the reads are done the
\* outcome displayed is that of the file uploaded last.
C9_OneRunInFlight ==
    /\ Cardinality(readers) <= 1
    /\ (readers = {} /\ uploads > 0) => lastRun.n = uploads

\* C10: a data row whose timestamp cell is not a usable date is dropped:
\* every observation that reaches the sort, the span check and
\* calculateCosts has a valid timestamp.
C10_OnlyValidTimestamps ==
    lastRun.n > 0 =>
        /\ \A i \in 1..Len(lastRun.out.records) : ~IsNaN(lastRun.out.records[i].dt.t)
        /\ \A i \in 1..Len(lastRun.out.usedRecords) : ~IsNaN(lastRun.out.usedRecords[i].dt.t)

\* the calendar months (year, month index) of the observations of a series
CalendarMonths(records) ==
    {<<records[i].dt.year, records[i].dt.month>> :
        i \in {j \in 1..Len(records) : ~IsNaN(records[j].dt.t)}}

\* the observations of a series that fall in the calendar month ym
InMonth(records, ym) ==
    SelectSeq(records, LAMBDA r : ~IsNaN(r.dt.t) /\ <<r.dt.year, r.dt.month>> = ym)

\* the distinct days of the month ym on which the series has an observation
ActiveDays(records, ym) ==
    {InMonth(records, ym)[i].dt.date : i \in 1..Len(InMonth(records, ym))}

\* the three tier quantities of a monthly usage u
TierQuantities(u) ==
    <<Min(u, TIER1_KWH * UnitsPerKwh),
      Min(Max(u - TIER1_KWH * UnitsPerKwh, 0), TIER2_WIDTH_KWH * UnitsPerKwh),
      Max(u - TIER2_KWH * UnitsPerKwh, 0)>>

\* the energy cost of the month ym at usage u
MonthEnergy(ym, u) ==
    IF ym[2] + 1 \in 6..9
    THEN MAdd(MAdd(Times(TierQuantities(u)[1], R30_TIER1), Times(TierQuantities(u)[2], R30_TIER2)),
              Times(TierQuantities(u)[3], R30_TIER3))
    ELSE Times(u, R30_WINTER)

\* the number of active days, summed over the months
RECURSIVE SumActiveDays(_, _)
SumActiveDays(records, months) ==
    IF months = {} THEN 0
    ELSE Cardinality(ActiveDays(records, CHOOSE ym \in months : TRUE))
         + SumActiveDays(records, months \ {CHOOSE ym \in months : TRUE})

\* the energy cost, summed over the months
RECURSIVE SumMonthEnergy(_, _)
SumMonthEnergy(records, months) ==
    IF months = {} THEN Zero
    ELSE MAdd(MonthEnergy(CHOOSE ym \in months : TRUE,
                          SumKwh(InMonth(records, CHOOSE ym \in months : TRUE))),
              SumMonthEnergy(records, months \ {CHOOSE ym \in months : TRUE}))

\* C11: for R-30 the reported fixed component is the daily fixed rate times
\* the distinct active days, summed over the calendar months, and the
\* reported energy component is the sum over the calendar months of the
\* month's energy cost (three tiers at 650 and 1000 kWh in June-September,
\* the tier quantities summing to the usage, else the winter rate); the
\* whole-series day count equals the sum of the per-month day counts.
C11_R30FixedAndEnergyByMonth ==
    Analysed =>
        /\ lastRun.out.results.r30.breakdown.fixed
             = Times(SumActiveDays(lastRun.out.usedRecords,
                                   CalendarMonths(lastRun.out.usedRecords)) * UnitsPerKwh,
                     FIXED_PER_DAY)
        /\ lastRun.out.results.r30.breakdown.energy
             = SumMonthEnergy(lastRun.out.usedRecords, CalendarMonths(lastRun.out.usedRecords))
        /\ Aggregates(lastRun.out.usedRecords).billingDays
             = SumActiveDays(lastRun.out.usedRecords, CalendarMonths(lastRun.out.usedRecords))
        /\ \A ym \in CalendarMonths(lastRun.out.usedRecords) :
               TierQuantities(SumKwh(InMonth(lastRun.out.usedRecords, ym)))[1]
                 + TierQuantities(SumKwh(InMonth(lastRun.out.usedRecords, ym)))[2]
                 + TierQuantities(SumKwh(InMonth(lastRun.out.usedRecords, ym)))[3]
               = SumKwh(InMonth(lastRun.out.usedRecords, ym))

\* the totals of the months of monthlyUsage, summed
RECURSIVE SumMonthTotals(_)
SumMonthTotals(months) ==
    IF months = <<>> THEN 0 ELSE Head(months).total + SumMonthTotals(Tail(months))

\* C12: getTouOaPeriod is on_peak exactly when isOnPeak is true, otherwise
\* super_off_peak iff the hour is 23 or later or before 7, otherwise
\* off_peak; after aggregating a series, two-period on + off, three-period
\* on + off + super-off and the sum of the monthly totals all equal the
\* total usage of the series, and the two on-peak totals are equal.
C12_UsageConservedByClassification ==
    period.classified =>
        /\ period.oa \in {"on_peak", "super_off_peak", "off_peak"}
        /\ (period.oa = "on_peak") = period.onPeak
        /\ ~period.onPeak =>
              (period.oa = "super_off_peak")
                = (/\ ~IsNaN(probe.t)
                   /\ \/ (probe.t - ProbeOrigin) % MinutesPerDay >= 23 * 60
                      \/ (probe.t - ProbeOrigin) % MinutesPerDay < 7 * 60)
        /\ period.agg.agg_tou_reo_on + period.agg.agg_tou_reo_off = SumKwh(period.records)
        /\ period.agg.agg_tou_oa_on + period.agg.agg_tou_oa_off + period.agg.agg_tou_oa_super
             = SumKwh(period.records)
        /\ SumMonthTotals(period.agg.monthlyUsage) = SumKwh(period.records)
        /\ period.agg.agg_tou_reo_on = period.agg.agg_tou_oa_on

\* C12 witness: a series of an observation at 23:00 sharp, super-off-peak,
\* and an on-peak observation
C12_Witness ==
    /\ period.classified
    /\ probe.hours = 23
    /\ probe.minutes = 0
    /\ period.oa = "super_off_peak"
    /\ Len(period.records) = 2
    /\ period.agg.agg_tou_oa_super > 0
    /\ period.agg.agg_tou_oa_on > 0
    /\ period.agg.agg_tou_reo_off = period.agg.agg_tou_oa_super

====
